---- MODULE Spec2Model ----
(***************************************************************************)
(* The asynchronous batch transcription subsystem of open-speech:          *)
(* BatchJobStore (src/src/batch/store.py) and BatchWorker                  *)
(* (src/src/batch/worker.py), run by one asyncio event loop.               *)
(*                                                                         *)
(* One step of the model is one uninterrupted run of the event loop's      *)
(* thread: a task runs from one suspension point to the next (the          *)
(* semaphore acquire of line 49, the run_in_executor await of line 121),   *)
(* a done-callback runs, or a caller invokes create, submit or cancel.     *)
(* The executor thread finishing a transcription call is a step of its     *)
(* own.                                                                    *)
(***************************************************************************)
EXTENDS Integers, Sequences, FiniteSets, TLC

\* ---------------------------------------------------------------- bounds
NumJobs == 2          \* job ids the callers use
MaxTotalFiles == 2    \* files of all created jobs together
MaxFaults == 2        \* store writes that raise, in the specification with faults
MaxClock == 1         \* ticks of the wall clock, in the specification with a clock
NumCallers == 2       \* threads calling the store, in the specification of the store
MaxCalls == 3         \* store operations the threads call, all together
MaxHistory == 1       \* history entries logged for requests that are not batch jobs
MaxTasks == 3         \* submit calls, where a job_id is submitted more than once

Jobs == 1..NumJobs
Instances == 1..MaxTasks
Callers == 1..NumCallers

\* ------------------------------------------------------------- constants
OS_BATCH_WORKERS == 2          \* the default of max_concurrent (worker.py line 28)
Null == "None"                 \* Python None
NoTime == <<>>                 \* None, as the value of started_at or finished_at
Elapsed == "elapsed_ms"        \* a value of int((time.monotonic() - start_ms) * 1000)
Text == "text"                 \* result.get("text", "") of a call that returned
NoRec == [absent |-> TRUE]     \* no row for the job_id
Cancelled == "Cancelled"       \* worker.py line 89
StoreError == "StoreError"     \* str(e) of an exception raised by a store write
Messages == {"", "boom"}       \* str(e) of the exception of a raising transcription call

\* a future: pending, cancelled, done with a result, or done with an exception
Fut(s) == [state |-> s, value |-> Null]
FutException(msg) == [state |-> "exception", value |-> msg]

VARIABLES
    store,            \* BatchJobStore: job_id -> row (BatchJob) or NoRec
    max_concurrent,   \* BatchWorker.__init__ argument: the default, or a lower limit
    sem_value,        \* self._semaphore._value
    waiters,          \* self._semaphore._waiters: the tasks waiting, in order
    tasks,            \* self._tasks: the job_ids that have a handle in the map
    pc,               \* where each job's task is
    fut,              \* the future each task awaits
    must_cancel,      \* Task._must_cancel: a cancellation to deliver at the next step
    cancel_requested, \* Task.cancel() returned True for the task at least once
    outcome,          \* how a done task ended: finished, cancelled or raised
    audio_files,      \* the audio_files argument of each task
    acc,              \* the local list `results` of _process_job
    cancel_ret,       \* the most recent observed cancel call and its return value
    faults_left,      \* how many more store writes may raise (sqlite3 errors)
    in_call,          \* the jobs with a call of self._router.transcribe on the executor
    clock,            \* the wall clock read by time.time()
    lock,             \* BatchJobStore._lock: the thread that holds it, or 0
    call,             \* the store operation each calling thread is in
    calls_left,       \* how many more store operations the threads call
    history,          \* the entries of the history (the rows of history_entries)
    options,          \* the options argument of a _transcribe_file call
    kwargs,           \* the keyword arguments of its self._router.transcribe call
    handles,          \* self._tasks, as job_id -> the task created by a submit, or 0
    task_job,         \* the job_id each created task was submitted for, or 0
    task_state        \* where each created task is: none, live, done, popped

\* what the pool and the store do not touch, or what stands for the pool where
\* a job_id is submitted more than once
sideVars == <<history, options, kwargs, handles, task_job, task_state>>

vars == <<store, max_concurrent, sem_value, waiters, tasks, pc, fut, must_cancel,
          cancel_requested, outcome, audio_files, acc, cancel_ret, faults_left,
          in_call, clock, lock, call, calls_left, sideVars>>

\* the state of the pool, the table and the clock left aside
workerVars == <<max_concurrent, sem_value, waiters, tasks, pc, fut, must_cancel,
                cancel_requested, outcome, audio_files, acc, cancel_ret, faults_left,
                in_call>>

\* time.time(), a float or None being kept apart from None as a sequence of one
Now == <<clock>>

\* ------------------------------------------------------------- the store
FileNames(j, n) == [i \in 1..n |-> <<j, i>>]

\* BatchJob(job_id=j, files=...) with the dataclass defaults; options is the set
\* of the dict's items
BatchJob(j, n) ==
    [job_id |-> j, status |-> "queued", created_at |-> <<0>>, started_at |-> NoTime,
     finished_at |-> NoTime, model |-> "", files |-> FileNames(j, n), options |-> {},
     results |-> <<>>, error |-> Null]

\* the columns that update sets directly (line 146) and the fields of the payload
Columns == {"status", "started_at", "finished_at"}
PayloadFields == {"model", "files", "options", "results", "error"}

\* a bug: the model is left out of the payload
PayloadNoModel(job) == [k \in PayloadFields \ {"model"} |-> job[k]]

\* BatchJobStore._payload: the JSON text, as the object it encodes
Payload(job) == [k \in PayloadFields |-> job[k]]

\* payload.get(k, default) of _job_from_row
PayloadGet(payload, k, default) == IF k \in DOMAIN payload THEN payload[k] ELSE default

\* BatchJobStore._job_from_row
JobFromRow(row) ==
    [job_id |-> row.job_id, status |-> row.status, created_at |-> row.created_at,
     started_at |-> row.started_at, finished_at |-> row.finished_at,
     model |-> PayloadGet(row.payload, "model", ""),
     files |-> PayloadGet(row.payload, "files", <<>>),
     options |-> PayloadGet(row.payload, "options", {}),
     results |-> PayloadGet(row.payload, "results", <<>>),
     error |-> PayloadGet(row.payload, "error", Null)]

\* the row that the INSERT of create writes (lines 117-120)
RowOf(job) ==
    [job_id |-> job.job_id, status |-> job.status, created_at |-> job.created_at,
     started_at |-> job.started_at, finished_at |-> job.finished_at,
     payload |-> Payload(job)]

\* a bug: the UPDATE sets every column that is supplied
UpdatedRowAllColumns(cur, job, fields) ==
    [k \in DOMAIN cur |->
        IF k \in DOMAIN fields THEN fields[k]
        ELSE IF k \in PayloadFields THEN job[k] ELSE cur[k]]

\* lines 141-166 of update, for the row `cur` of the table and the job read
\* from it before: the supplied fields that are attributes are set on the job
\* (setattr); the UPDATE sets each of the columns status, started_at and
\* finished_at that is supplied, and the payload, which is made of the job's
\* model, files, options, results and error; job_id and created_at are columns
\* that the UPDATE does not set
UpdatedRow(cur, job, fields) ==
    [k \in DOMAIN cur |->
        IF k \in Columns
        THEN IF k \in DOMAIN fields THEN fields[k] ELSE cur[k]
        ELSE IF k \in PayloadFields
        THEN IF k \in DOMAIN fields THEN fields[k] ELSE job[k]
        ELSE cur[k]]

\* the UPDATE ... WHERE job_id = ? (lines 162-166), written from the job read
UpdateWrite(st, j, job, fields) ==
    IF st[j] = NoRec THEN st
    ELSE [st EXCEPT ![j] = UpdatedRow(@, job, fields)]

\* a bug: every write lands in the row of job 1
StoreUpdateWrongRow(st, j, fields) ==
    IF st[1] = NoRec THEN st
    ELSE [st EXCEPT ![1] =
            [k \in DOMAIN st[1] |->
                IF k \in DOMAIN fields THEN fields[k] ELSE st[1][k]]]

\* a bug: update inserts the row it does not find
StoreUpdateUpsert(st, j, fields) ==
    IF st[j] = NoRec
    THEN [st EXCEPT ![j] = UpdatedRow(BatchJob(j, 0), BatchJob(j, 0), fields)]
    ELSE [st EXCEPT ![j] = UpdatedRow(@, @, fields)]

\* BatchJobStore.update, run without interruption: a missing row is left missing;
\* otherwise the row is read and written
StoreUpdate(st, j, fields) ==
    IF st[j] = NoRec THEN st
    ELSE [st EXCEPT ![j] = UpdatedRow(@, @, fields)]

\* a bug: the transcription call is made on the event loop's thread
LoopThreadBusyInline(calls) == calls # {}

\* whether the event loop's thread is inside a transcription call: never, the
\* call being handed to the executor (line 121)
LoopThreadBusy(calls) == FALSE

\* ---------------------------------------------------------- the semaphore
MinOf(S) == CHOOSE x \in S : \A y \in S : x <= y

\* a bug: the counter is not consulted, only the queue
LockedIgnoresValue(v, w, f) == \E k \in 1..Len(w) : f[w[k]].state # "cancelled"

\* a bug: the semaphore never has a permit to give
LockedAlways(v, w, f) == TRUE

\* a bug: the semaphore lets every task in
LockedNever(v, w, f) == FALSE

\* Semaphore.locked
Locked(v, w, f) == v = 0 \/ \E k \in 1..Len(w) : f[w[k]].state # "cancelled"

\* a bug: nobody is woken
WakeUpNextNobody(v, w, f) == [value |-> v, fut |-> f]

\* Semaphore._wake_up_next: the first waiter whose future is not done gets the permit
WakeUpNext(v, w, f) ==
    LET P == {k \in 1..Len(w) : f[w[k]].state = "pending"} IN
    IF P = {} THEN [value |-> v, fut |-> f]
    ELSE [value |-> v - 1, fut |-> [f EXCEPT ![w[MinOf(P)]] = Fut("result")]]

\* a bug: the permit is not given back
ReleaseLeak(v, w, f) == [value |-> v, fut |-> f]

\* Semaphore.release, the exit of `async with self._semaphore`
Release(v, w, f) == WakeUpNext(v + 1, w, f)

Without(w, j) == SelectSeq(w, LAMBDA x : x # j)

\* ------------------------------------------------------ _process_job body
\* A run of _process_job from one suspension point to the next gives the new
\* store and how the run ended: "suspend" at the next transcription call, or the
\* task's end "finished", "cancelled" or "raised".  r1, r2, r3 say whether the
\* store writes of the run raise (a write that raises changes nothing: no commit),
\* and faults counts the writes that raised.

\* except Exception (lines 93-100), entered by a store write that raised: the
\* fault is recorded and absorbed, unless the handler's own write raises
FaultHandler(st, j, r3) ==
    IF r3 THEN [store |-> st, end |-> "raised", faults |-> 2]
    ELSE [store |-> StoreUpdate(st, j,
              [status |-> "failed", finished_at |-> Now, error |-> StoreError]),
          end |-> "finished", faults |-> 1]

\* a bug: the cancelled job is put back to queued
CancelHandlerRequeue(st, j, r3) ==
    [store |-> StoreUpdate(st, j, [status |-> "queued"]), end |-> "cancelled", faults |-> 0]

\* a bug: CancelledError is not caught, nothing is recorded
CancelHandlerNoRecord(st, j, r3) == [store |-> st, end |-> "cancelled", faults |-> 0]

\* a bug: the cancellation is recorded and swallowed
CancelHandlerSwallow(st, j, r3) ==
    [store |-> StoreUpdate(st, j,
         [status |-> "failed", finished_at |-> Now, error |-> Cancelled]),
     end |-> "finished", faults |-> 0]

\* a bug: the cancellation wipes the results
CancelHandlerClearsResults(st, j, r3) ==
    [store |-> StoreUpdate(st, j,
         [status |-> "failed", finished_at |-> Now, error |-> Cancelled,
          results |-> <<>>]),
     end |-> "cancelled", faults |-> 0]

\* except asyncio.CancelledError (lines 81-91): recorded, then raised again; an
\* exception of the handler's write replaces the CancelledError
CancelHandler(st, j, r3) ==
    IF r3 THEN [store |-> st, end |-> "raised", faults |-> 1]
    ELSE [store |-> StoreUpdate(st, j,
              [status |-> "failed", finished_at |-> Now, error |-> Cancelled]),
          end |-> "cancelled", faults |-> 0]

\* a bug: the final update stamps finished_at with the time 0
FinalizeStampsZero(st, j, results, r2, r3) ==
    IF r2 THEN FaultHandler(st, j, r3)
    ELSE [store |-> StoreUpdate(st, j,
              [status |-> "done", finished_at |-> <<0>>, results |-> results]),
          end |-> "finished", faults |-> 0]

\* a bug: the final update stamps started_at again
FinalizeRestamps(st, j, results, r2, r3) ==
    IF r2 THEN FaultHandler(st, j, r3)
    ELSE [store |-> StoreUpdate(st, j,
              [status |-> "done", started_at |-> Now, finished_at |-> Now,
               results |-> results]),
          end |-> "finished", faults |-> 0]

\* lines 70-75: the final update
Finalize(st, j, results, r2, r3) ==
    IF r2 THEN FaultHandler(st, j, r3)
    ELSE [store |-> StoreUpdate(st, j,
              [status |-> "done", finished_at |-> Now, results |-> results]),
          end |-> "finished", faults |-> 0]

\* line 64: the loop goes on to the next file, or is exhausted
NextFile(st, j, results, files, r2, r3) ==
    IF Len(results) < Len(files) THEN [store |-> st, end |-> "suspend", faults |-> 0]
    ELSE Finalize(st, j, results, r2, r3)

\* a bug: the files are transcribed without the record being marked running
ProcessJobStartNoRunning(st, j, files, r1, r2, r3) ==
    NextFile(st, j, <<>>, files, r2, r3)

\* lines 59-62: entry of _process_job
ProcessJobStart(st, j, files, r1, r2, r3) ==
    IF r1 THEN FaultHandler(st, j, r3)
    ELSE NextFile(StoreUpdate(st, j, [status |-> "running", started_at |-> Now]),
                  j, <<>>, files, r2, r3)

\* a bug: only the newest result is persisted
ProcessJobResumeOverwrite(st, j, results, files, r1, r2, r3) ==
    IF r1 THEN FaultHandler(st, j, r3)
    ELSE NextFile(StoreUpdate(st, j, [results |-> <<results[Len(results)]>>]),
                  j, results, files, r2, r3)

\* a bug: the list is persisted only by the final update
ProcessJobResumeNoPersist(st, j, results, files, r1, r2, r3) ==
    NextFile(st, j, results, files, r2, r3)

\* lines 66-68: a file's result is appended and the list persisted
ProcessJobResume(st, j, results, files, r1, r2, r3) ==
    IF r1 THEN FaultHandler(st, j, r3)
    ELSE NextFile(StoreUpdate(st, j, [results |-> results]), j, results, files, r2, r3)

\* a bug: a raising call is reported as a success
TranscribeResultAlwaysDone(filename, f) ==
    [filename |-> filename, status |-> "done", text |-> Text,
     processing_time_ms |-> Elapsed]

\* a bug: a failed result carries no processing time
TranscribeResultNoTime(filename, f) ==
    IF f.state = "result"
    THEN [filename |-> filename, status |-> "done", text |-> Text,
          processing_time_ms |-> Elapsed]
    ELSE [filename |-> filename, status |-> "failed", error |-> f.value]

\* _transcribe_file (lines 102-150): a result dict for either outcome of the call
TranscribeResult(filename, f) ==
    IF f.state = "result"
    THEN [filename |-> filename, status |-> "done", text |-> Text,
          processing_time_ms |-> Elapsed]
    ELSE [filename |-> filename, status |-> "failed", error |-> f.value,
          processing_time_ms |-> Elapsed]

\* a bug: the loop takes the last file every time
CurrentFileLast(files, results) == files[Len(files)]

\* `for filename, data in audio_files` (line 64): the file of the iteration that
\* follows Len(results) completed ones
CurrentFile(files, results) == files[Len(results) + 1]

\* whether a store write may raise
Raises == IF faults_left > 0 THEN BOOLEAN ELSE {FALSE}

\* which of the store writes of one run of _process_job raise: <<r1, r2, r3>> for
\* the write of lines 60 or 68, the write of line 70 and the write of a handler
\* (a run makes the write of line 70 only when the one before it did not raise,
\* and a handler's write only when one of them raised)
AllWritePlans ==
    {p \in [1..3 -> BOOLEAN] : (p[1] => ~p[2]) /\ (p[3] => (p[1] \/ p[2]))}

WritePlans == {p \in AllWritePlans : \A i \in 1..3 : p[i] \in Raises}

\* ------------------------------------------------------------------ Init
\* a calling thread outside every store operation
NoArg == [none |-> TRUE]
Idle == [op |-> "none", pc |-> "idle", job_id |-> 0, arg |-> NoArg, row |-> NoRec,
         ret |-> NoArg]

NoCancel == [job_id |-> 0, value |-> FALSE]   \* cancel has not been called

InitPool ==
    /\ store = [j \in Jobs |-> NoRec]
    /\ max_concurrent \in 1..OS_BATCH_WORKERS
    /\ sem_value = max_concurrent
    /\ waiters = <<>>
    /\ tasks = {}
    /\ pc = [j \in Jobs |-> "none"]
    /\ fut = [j \in Jobs |-> Fut("none")]
    /\ must_cancel = [j \in Jobs |-> FALSE]
    /\ cancel_requested = [j \in Jobs |-> FALSE]
    /\ outcome = [j \in Jobs |-> "none"]
    /\ audio_files = [j \in Jobs |-> <<>>]
    /\ acc = [j \in Jobs |-> <<>>]
    /\ cancel_ret = NoCancel
    /\ in_call = {}
    /\ clock = 0
    /\ lock = 0
    /\ call = [t \in Callers |-> Idle]
    /\ calls_left = MaxCalls
    /\ history = <<>>
    /\ options = NoArg
    /\ kwargs = NoArg
    /\ handles = [j \in Jobs |-> 0]
    /\ task_job = [i \in Instances |-> 0]
    /\ task_state = [i \in Instances |-> "none"]

\* the store's writes succeed
Init == InitPool /\ faults_left = 0

\* up to MaxFaults store writes raise, whichever they are
InitFault == InitPool /\ faults_left = MaxFaults

\* --------------------------------------------------------------- callers
RECURSIVE TotalFiles(_, _)
TotalFiles(st, k) ==
    IF k = 0 THEN 0
    ELSE TotalFiles(st, k - 1) + (IF st[k] = NoRec THEN 0 ELSE Len(st[k].files))

\* store.create(BatchJob(job_id=j, files=[...])) for a fresh job_id
Create(j, n) ==
    /\ ~LoopThreadBusy(in_call)
    /\ UNCHANGED <<lock, call, calls_left, sideVars>>
    /\ store[j] = NoRec
    /\ pc[j] = "none"
    /\ TotalFiles(store, NumJobs) + n <= MaxTotalFiles
    /\ store' = [store EXCEPT ![j] = BatchJob(j, n)]
    /\ UNCHANGED <<max_concurrent, sem_value, waiters, tasks, pc, fut, must_cancel,
                   cancel_requested, outcome, audio_files, acc, cancel_ret, faults_left,
                   in_call, clock>>

\* a bug: submit marks the job running itself
SubmitInline(j) ==
    /\ ~LoopThreadBusy(in_call)
    /\ UNCHANGED <<lock, call, calls_left, sideVars>>
    /\ store[j] # NoRec
    /\ pc[j] = "none"
    /\ pc' = [pc EXCEPT ![j] = "created"]
    /\ tasks' = tasks \cup {j}
    /\ audio_files' = [audio_files EXCEPT ![j] = store[j].files]
    /\ store' = StoreUpdate(store, j, [status |-> "running", started_at |-> Now])
    /\ UNCHANGED <<max_concurrent, sem_value, waiters, fut, must_cancel,
                   cancel_requested, outcome, acc, cancel_ret, faults_left, in_call,
                   clock>>

\* BatchWorker.submit (lines 32-41), for a created job that was not submitted before
Submit(j) ==
    /\ ~LoopThreadBusy(in_call)
    /\ UNCHANGED <<lock, call, calls_left, sideVars>>
    /\ store[j] # NoRec
    /\ pc[j] = "none"
    /\ pc' = [pc EXCEPT ![j] = "created"]
    /\ tasks' = tasks \cup {j}
    /\ audio_files' = [audio_files EXCEPT ![j] = store[j].files]
    /\ UNCHANGED <<store, max_concurrent, sem_value, waiters, fut, must_cancel,
                   cancel_requested, outcome, acc, cancel_ret, faults_left, in_call,
                   clock>>

\* a bug: task.done() is not consulted
CancelResultAnyHandle(j) == j \in tasks

\* `task and not task.done()` of BatchWorker.cancel (line 157)
CancelResult(j) == j \in tasks /\ pc[j] # "done"

\* Task.cancel for a task that is not done: it cancels the future the task awaits
\* when that future is pending, and otherwise sets _must_cancel.  Cancelling the
\* future of run_in_executor cancels the executor's work item only if no thread
\* had taken it; a call that a thread is running goes on running
TaskCancel(j) ==
    /\ cancel_requested' = [cancel_requested EXCEPT ![j] = TRUE]
    /\ IF fut[j].state = "pending"
       THEN /\ fut' = [fut EXCEPT ![j] = Fut("cancelled")]
            /\ in_call' \in {in_call, in_call \ {j}}
            /\ UNCHANGED must_cancel
       ELSE /\ must_cancel' = [must_cancel EXCEPT ![j] = TRUE]
            /\ UNCHANGED <<fut, in_call>>

\* BatchWorker.cancel (lines 154-160), but for its return value
CancelCall(j) ==
    /\ ~LoopThreadBusy(in_call)
    /\ UNCHANGED <<lock, call, calls_left, sideVars>>
    /\ IF CancelResult(j) THEN TaskCancel(j)
       ELSE UNCHANGED <<fut, must_cancel, cancel_requested, in_call>>
    /\ UNCHANGED <<store, max_concurrent, sem_value, waiters, tasks, pc, outcome,
                   audio_files, acc, faults_left, clock>>

\* cancel, the caller dropping the return value
Cancel(j) == CancelCall(j) /\ UNCHANGED cancel_ret

\* cancel, the return value kept for inspection
CancelObserved(j) ==
    /\ CancelCall(j)
    /\ cancel_ret' = [job_id |-> j, value |-> CancelResult(j)]

\* ------------------------------------------------------------- the tasks
\* a bug: a waiter that was granted the permit and is then cancelled keeps it
EndCancelledKeepsPermit(j, v, f) ==
    /\ pc' = [pc EXCEPT ![j] = "done"]
    /\ outcome' = [outcome EXCEPT ![j] = "cancelled"]
    /\ must_cancel' = [must_cancel EXCEPT ![j] = FALSE]
    /\ sem_value' = sem_value
    /\ fut' = [fut EXCEPT ![j] = Fut("none")]
    /\ UNCHANGED <<store, acc, faults_left, in_call>>

\* the task of job j ends without having entered _process_job
EndCancelled(j, v, f) ==
    /\ pc' = [pc EXCEPT ![j] = "done"]
    /\ outcome' = [outcome EXCEPT ![j] = "cancelled"]
    /\ must_cancel' = [must_cancel EXCEPT ![j] = FALSE]
    /\ sem_value' = v
    /\ fut' = [f EXCEPT ![j] = Fut("none")]
    /\ UNCHANGED <<store, acc, faults_left, in_call>>

\* the task of job j has run _process_job up to `out`, with the semaphore at
\* (v, w, f): it suspends in the next transcription call, or leaves
\* `async with self._semaphore` (line 49) and is done
Conclude(j, out, results, v, w, f) ==
    /\ out.faults <= faults_left
    /\ faults_left' = faults_left - out.faults
    /\ store' = out.store
    /\ acc' = [acc EXCEPT ![j] = IF out.end = "suspend" THEN results ELSE <<>>]
    /\ must_cancel' = [must_cancel EXCEPT ![j] = FALSE]
    /\ IF out.end = "suspend"
       THEN /\ pc' = [pc EXCEPT ![j] = "transcribe"]
            /\ fut' = [f EXCEPT ![j] = Fut("pending")]
            /\ in_call' = in_call \cup {j}
            /\ sem_value' = v
            /\ UNCHANGED outcome
       ELSE LET s == Release(v, w, f) IN
            /\ pc' = [pc EXCEPT ![j] = "done"]
            /\ outcome' = [outcome EXCEPT ![j] = out.end]
            /\ sem_value' = s.value
            /\ fut' = [s.fut EXCEPT ![j] = Fut("none")]
            /\ UNCHANGED in_call

\* first step of the task created by submit: _run_with_semaphore (lines 43-50)
\* up to its first suspension point
TaskStart(j) ==
    /\ ~LoopThreadBusy(in_call)
    /\ UNCHANGED <<lock, call, calls_left, sideVars>>
    /\ pc[j] = "created"
    /\ IF must_cancel[j]
       THEN EndCancelled(j, sem_value, fut) /\ UNCHANGED waiters
       ELSE IF Locked(sem_value, waiters, fut)
       THEN /\ waiters' = Append(waiters, j)
            /\ fut' = [fut EXCEPT ![j] = Fut("pending")]
            /\ pc' = [pc EXCEPT ![j] = "acquire"]
            /\ UNCHANGED <<store, sem_value, acc, must_cancel, outcome, faults_left,
                           in_call>>
       ELSE /\ \E p \in WritePlans :
                Conclude(j, ProcessJobStart(store, j, audio_files[j], p[1], p[2], p[3]),
                         <<>>, sem_value - 1, waiters, fut)
            /\ UNCHANGED waiters
    /\ UNCHANGED <<max_concurrent, tasks, cancel_requested, audio_files, cancel_ret,
                   clock>>

\* the task resumes in Semaphore.acquire: with the permit, or with CancelledError
TaskAcquired(j) ==
    /\ ~LoopThreadBusy(in_call)
    /\ UNCHANGED <<lock, call, calls_left, sideVars>>
    /\ pc[j] = "acquire"
    /\ fut[j].state \in {"result", "cancelled"}
    /\ waiters' = Without(waiters, j)
    /\ IF fut[j].state = "cancelled" \/ must_cancel[j]
       THEN LET s == IF fut[j].state # "cancelled"
                     THEN WakeUpNext(sem_value + 1, waiters', fut)
                     ELSE [value |-> sem_value, fut |-> fut]
            IN EndCancelled(j, s.value, s.fut)
       ELSE LET s == IF sem_value > 0
                     THEN WakeUpNext(sem_value, waiters', fut)
                     ELSE [value |-> sem_value, fut |-> fut]
            IN \E p \in WritePlans :
                Conclude(j, ProcessJobStart(store, j, audio_files[j], p[1], p[2], p[3]),
                         <<>>, s.value, waiters', s.fut)
    /\ UNCHANGED <<max_concurrent, tasks, cancel_requested, audio_files, cancel_ret,
                   clock>>

\* the task resumes in _transcribe_file (line 121): with the call's outcome, or
\* with CancelledError, which `except Exception` of line 142 does not catch
TaskResumed(j) ==
    /\ ~LoopThreadBusy(in_call)
    /\ UNCHANGED <<lock, call, calls_left, sideVars>>
    /\ pc[j] = "transcribe"
    /\ fut[j].state \in {"result", "exception", "cancelled"}
    /\ IF fut[j].state = "cancelled" \/ must_cancel[j]
       THEN \E r3 \in Raises :
              Conclude(j, CancelHandler(store, j, r3), acc[j], sem_value, waiters, fut)
       ELSE LET results == Append(acc[j],
                   TranscribeResult(CurrentFile(audio_files[j], acc[j]), fut[j]))
            IN \E p \in WritePlans :
                 Conclude(j, ProcessJobResume(store, j, results, audio_files[j],
                                              p[1], p[2], p[3]),
                          results, sem_value, waiters, fut)
    /\ UNCHANGED <<max_concurrent, waiters, tasks, cancel_requested, audio_files,
                   cancel_ret, clock>>

\* the outcomes of a transcription call: it returns, or raises with a message
CallOutcomes == {Fut("result")} \cup {FutException(m) : m \in Messages}

\* the executor thread's self._router.transcribe call (lines 123-127) returns
\* or raises, and the future of run_in_executor is done; the outcome of a call
\* whose future was cancelled is dropped
CallCompletes(j, o) ==
    /\ UNCHANGED <<lock, call, calls_left, sideVars>>
    /\ j \in in_call
    /\ in_call' = in_call \ {j}
    /\ IF pc[j] = "transcribe" /\ fut[j].state = "pending"
       THEN fut' = [fut EXCEPT ![j] = o]
       ELSE UNCHANGED fut
    /\ UNCHANGED <<store, max_concurrent, sem_value, waiters, tasks, pc, must_cancel,
                   cancel_requested, outcome, audio_files, acc, cancel_ret, faults_left,
                   clock>>

\* the wall clock advances
Tick ==
    /\ UNCHANGED <<lock, call, calls_left, sideVars>>
    /\ clock < MaxClock
    /\ clock' = clock + 1
    /\ UNCHANGED <<store, max_concurrent, sem_value, waiters, tasks, pc, fut,
                   must_cancel, cancel_requested, outcome, audio_files, acc, cancel_ret,
                   faults_left, in_call>>

\* the done-callback of line 41
DoneCallback(j) ==
    /\ ~LoopThreadBusy(in_call)
    /\ UNCHANGED <<lock, call, calls_left, sideVars>>
    /\ pc[j] = "done"
    /\ j \in tasks
    /\ tasks' = tasks \ {j}
    /\ UNCHANGED <<store, max_concurrent, sem_value, waiters, pc, fut, must_cancel,
                   cancel_requested, outcome, audio_files, acc, cancel_ret, faults_left,
                   in_call, clock>>

\* ------------------------------------------------- the store's operations
\* Threads call create, get, update, list_jobs and delete; an operation is the
\* steps: wait for self._lock, the statements run on the connection inside
\* `with self._lock`, the exit of the with block, the return.

\* the job a caller creates for job_id j
StoreJob(j) ==
    [BatchJob(j, 1) EXCEPT !.created_at = Now, !.model = "m",
                           !.options = {<<"language", "en">>}]

\* the fields the callers of update supply
UpdateFieldSets ==
    {[status |-> "done", error |-> "boom"],
     [results |-> <<[filename |-> "f", status |-> "done"]>>],
     [created_at |-> <<MaxClock + 1>>]}

\* the arguments the callers of list_jobs supply
Limits == {-1, NumJobs - 1}
Filters == {Null, "", "done"}

\* `if status:` (line 173)
Truthy(x) == x \notin {Null, ""}

\* the rows of WHERE status = ?, or all rows
Matching(st, status) ==
    {j \in Jobs : st[j] # NoRec /\ (Truthy(status) => st[j].status = status)}

\* a bug: the rows come in any order
OrdersAny(st, S) ==
    {p \in [1..Cardinality(S) -> S] :
        \A a, b \in 1..Cardinality(S) : a # b => p[a] # p[b]}

\* ORDER BY created_at DESC: the orders SQLite may give, rows of equal created_at
\* coming either way
Orders(st, S) ==
    {p \in [1..Cardinality(S) -> S] :
        /\ \A a, b \in 1..Cardinality(S) : a # b => p[a] # p[b]
        /\ \A a \in 1..(Cardinality(S) - 1) :
              st[p[a]].created_at[1] >= st[p[a + 1]].created_at[1]}

\* LIMIT ?: a negative limit is no limit
LimitOf(n, len) == IF n < 0 THEN len ELSE IF n < len THEN n ELSE len

\* BatchJobStore.list_jobs (lines 169-183): the lists it may return
ListJobs(st, limit, status) ==
    {[i \in 1..LimitOf(limit, Cardinality(Matching(st, status))) |-> st[p[i]]] :
        p \in Orders(st, Matching(st, status))}

\* a thread enters an operation
Begin(t, op, j, arg) ==
    /\ call[t].pc \in {"idle", "returned"}
    /\ calls_left > 0
    /\ calls_left' = calls_left - 1
    /\ call' = [call EXCEPT ![t] = [op |-> op, pc |-> "wait", job_id |-> j,
                                    arg |-> arg, row |-> NoRec, ret |-> NoArg]]
    /\ UNCHANGED <<store, lock, clock, workerVars, sideVars>>

CallCreate(t, j) == Begin(t, "create", j, [job |-> StoreJob(j)])
CallGet(t, j) == Begin(t, "get", j, NoArg)
CallUpdate(t, j, f) == Begin(t, "update", j, [fields |-> f])
CallListJobs(t, n, s) == Begin(t, "list_jobs", 0, [limit |-> n, status |-> s])
CallDelete(t, j) == Begin(t, "delete", j, NoArg)

\* a bug: the lock is taken although another thread holds it
CanAcquireAlways(l) == TRUE

\* threading.Lock: it can be taken when no thread holds it
CanAcquire(l) == l = 0

\* `with self._lock:` entered
Acquire(t) ==
    /\ call[t].pc = "wait"
    /\ CanAcquire(lock)
    /\ lock' = t
    /\ call' = [call EXCEPT ![t].pc = "locked"]
    /\ UNCHANGED <<store, clock, workerVars, calls_left, sideVars>>

\* a bug: the lock is still held after the exception
LockAfterRaiseHeld(t) == t

\* the holder of the lock after an exception left the with block: nobody
LockAfterRaise(t) == 0

\* a bug: the lock is given up between the SELECT and the UPDATE
LockAfterSelectFree(t) == 0

\* the holder of the lock after the SELECT of update: still the thread
LockAfterSelect(t) == t

\* create (lines 116-121): the INSERT and the commit, or the INSERT raising
\* sqlite3.IntegrityError for a job_id that exists (PRIMARY KEY, line 54)
CreateInsert(t) ==
    /\ call[t].pc = "locked" /\ call[t].op = "create"
    /\ IF store[call[t].job_id] # NoRec
       THEN /\ call' = [call EXCEPT ![t].pc = "returned",
                                    ![t].ret = [raises |-> "IntegrityError"]]
            /\ lock' = LockAfterRaise(t)
            /\ UNCHANGED store
       ELSE /\ store' = [store EXCEPT ![call[t].job_id] =
                            JobFromRow(RowOf(call[t].arg.job))]
            /\ call' = [call EXCEPT ![t].pc = "unlock",
                                    ![t].ret = [job |-> call[t].arg.job]]
            /\ UNCHANGED lock
    /\ UNCHANGED <<clock, workerVars, calls_left, sideVars>>

\* get (lines 127-128): the SELECT
GetSelect(t) ==
    /\ call[t].pc = "locked" /\ call[t].op = "get"
    /\ call' = [call EXCEPT ![t].pc = "unlock", ![t].row = store[call[t].job_id]]
    /\ UNCHANGED <<store, lock, clock, workerVars, calls_left, sideVars>>

\* a bug: update inserts the row it does not find
UpdateSelectUpsert(t) ==
    /\ call[t].pc = "locked" /\ call[t].op = "update"
    /\ IF store[call[t].job_id] = NoRec
       THEN /\ store' = UpdateWrite([store EXCEPT ![call[t].job_id] =
                                        BatchJob(call[t].job_id, 0)],
                                    call[t].job_id, BatchJob(call[t].job_id, 0),
                                    call[t].arg.fields)
            /\ call' = [call EXCEPT ![t].pc = "unlock", ![t].ret = [bool |-> TRUE]]
       ELSE /\ call' = [call EXCEPT ![t].pc = "write",
                                    ![t].row = store[call[t].job_id]]
            /\ UNCHANGED store
    /\ lock' = LockAfterSelect(t)
    /\ UNCHANGED <<clock, workerVars, calls_left, sideVars>>

\* update (lines 136-141): the SELECT, and the early return for a missing row
UpdateSelect(t) ==
    /\ call[t].pc = "locked" /\ call[t].op = "update"
    /\ IF store[call[t].job_id] = NoRec
       THEN call' = [call EXCEPT ![t].pc = "unlock", ![t].ret = [bool |-> FALSE]]
       ELSE call' = [call EXCEPT ![t].pc = "write", ![t].row = store[call[t].job_id]]
    /\ lock' = LockAfterSelect(t)
    /\ UNCHANGED <<store, clock, workerVars, calls_left, sideVars>>

\* update (lines 143-166): the UPDATE and the commit
UpdateExecute(t) ==
    /\ call[t].pc = "write"
    /\ store' = UpdateWrite(store, call[t].job_id, call[t].row, call[t].arg.fields)
    /\ call' = [call EXCEPT ![t].pc = "unlock", ![t].ret = [bool |-> TRUE]]
    /\ UNCHANGED <<lock, clock, workerVars, calls_left, sideVars>>

\* list_jobs (lines 172-182): the SELECT
ListSelect(t) ==
    /\ call[t].pc = "locked" /\ call[t].op = "list_jobs"
    /\ \E r \in ListJobs(store, call[t].arg.limit, call[t].arg.status) :
          call' = [call EXCEPT ![t].pc = "unlock", ![t].ret = [list |-> r]]
    /\ UNCHANGED <<store, lock, clock, workerVars, calls_left, sideVars>>

\* a bug: delete reports a deleted row whatever it found
RowCountPositiveAlways(st, j) == TRUE

\* cursor.rowcount > 0 after the DELETE (line 191): a row was there
RowCountPositive(st, j) == st[j] # NoRec

\* delete (lines 188-191): the DELETE and the commit
DeleteExecute(t) ==
    /\ call[t].pc = "locked" /\ call[t].op = "delete"
    /\ store' = [store EXCEPT ![call[t].job_id] = NoRec]
    /\ call' = [call EXCEPT ![t].pc = "unlock",
                            ![t].ret = [bool |-> RowCountPositive(store, call[t].job_id)]]
    /\ UNCHANGED <<lock, clock, workerVars, calls_left, sideVars>>

\* the with block is left and the operation returns; get returns the job of the
\* row it read, or None
Return(t) ==
    /\ call[t].pc = "unlock"
    /\ lock' = 0
    /\ call' = [call EXCEPT ![t].pc = "returned",
                            ![t].ret = IF call[t].op = "get"
                                       THEN [job |-> IF call[t].row = NoRec THEN NoRec
                                                     ELSE call[t].row]
                                       ELSE call[t].ret]
    /\ UNCHANGED <<store, clock, workerVars, calls_left, sideVars>>

\* a bug: delete cancels the job's task
DeleteCancels(j) ==
    /\ ~LoopThreadBusy(in_call)
    /\ store[j] # NoRec
    /\ j \in tasks /\ pc[j] # "done"
    /\ store' = [store EXCEPT ![j] = NoRec]
    /\ IF j \in tasks /\ pc[j] # "done"
       THEN /\ cancel_requested' = [cancel_requested EXCEPT ![j] = TRUE]
            /\ must_cancel' = [must_cancel EXCEPT ![j] = TRUE]
       ELSE UNCHANGED <<cancel_requested, must_cancel>>
    /\ UNCHANGED <<max_concurrent, sem_value, waiters, tasks, pc, fut, outcome,
                   audio_files, acc, cancel_ret, faults_left, in_call, clock, lock,
                   call, calls_left, sideVars>>

\* store.delete(j), run without interruption, of the record of a job whose task
\* has not finished
Delete(j) ==
    /\ ~LoopThreadBusy(in_call)
    /\ store[j] # NoRec
    /\ j \in tasks /\ pc[j] # "done"
    /\ store' = [store EXCEPT ![j] = NoRec]
    /\ UNCHANGED <<workerVars, clock, lock, call, calls_left, sideVars>>

\* the threads calling the store, and the clock
NextStore ==
    \/ \E t \in Callers, j \in Jobs : CallCreate(t, j)
    \/ \E t \in Callers, j \in Jobs : CallGet(t, j)
    \/ \E t \in Callers, j \in Jobs, f \in UpdateFieldSets : CallUpdate(t, j, f)
    \/ \E t \in Callers, n \in Limits, s \in Filters : CallListJobs(t, n, s)
    \/ \E t \in Callers, j \in Jobs : CallDelete(t, j)
    \/ \E t \in Callers : Acquire(t)
    \/ \E t \in Callers : CreateInsert(t)
    \/ \E t \in Callers : GetSelect(t)
    \/ \E t \in Callers : UpdateSelect(t)
    \/ \E t \in Callers : UpdateExecute(t)
    \/ \E t \in Callers : ListSelect(t)
    \/ \E t \in Callers : DeleteExecute(t)
    \/ \E t \in Callers : Return(t)
    \/ Tick

\* Next, with records being deleted
NextDelete ==
    \/ \E j \in Jobs, n \in 0..MaxTotalFiles : Create(j, n)
    \/ \E j \in Jobs : Submit(j)
    \/ \E j \in Jobs : Cancel(j)
    \/ \E j \in Jobs : TaskStart(j)
    \/ \E j \in Jobs : TaskAcquired(j)
    \/ \E j \in Jobs : TaskResumed(j)
    \/ \E j \in Jobs, o \in CallOutcomes : CallCompletes(j, o)
    \/ \E j \in Jobs : DoneCallback(j)
    \/ \E j \in Jobs : Delete(j)

\* update(job_id, job_id=...): Python binds the parameter job_id (line 133)
\* twice and raises TypeError before the body of update runs
CallUpdateJobId(t, j, other) ==
    /\ call[t].pc \in {"idle", "returned"}
    /\ calls_left > 0
    /\ calls_left' = calls_left - 1
    /\ call' = [call EXCEPT ![t] = [op |-> "update", pc |-> "returned", job_id |-> j,
                                    arg |-> [fields |-> [job_id |-> other]],
                                    row |-> NoRec, ret |-> [raises |-> "TypeError"]]]
    /\ UNCHANGED <<store, lock, clock, workerVars, sideVars>>

\* NextStore, with callers that also supply job_id to update
NextStoreJobId ==
    \/ NextStore
    \/ \E t \in Callers, j \in Jobs, other \in Jobs : CallUpdateJobId(t, j, other)

SpecStoreJobId == Init /\ [][NextStoreJobId]_vars

\* HistoryManager.log_stt (history.py lines 56-76), called for a transcription
\* request of the web UI for an uploaded file that is no file of a batch job:
\* an entry of type stt is added.  Nothing in BatchWorker calls it (worker.py
\* lines 76-79)
LogStt ==
    /\ Len(history) < MaxHistory
    /\ history' = Append(history, [type |-> "stt", input_filename |-> <<0, 1>>])
    /\ UNCHANGED <<store, clock, workerVars, lock, call, calls_left, options, kwargs,
                   handles, task_job, task_state>>

\* --------------------------------------------- _transcribe_file's arguments
\* An options dict and the keyword arguments of a call are records over their
\* possible keys: <<>> at a key that is absent, <<v>> at a key bound to v.  The
\* temperature None is NoTemperature, the number x is <<x>>.
Absent == <<>>
NoTemperature == <<>>
OptionalKeys == {"language", "response_format", "temperature"}

\* the option dicts _transcribe_file is called with
OptionSets ==
    [language : {Absent, <<Null>>, <<"">>, <<"en">>},
     response_format : {Absent, <<"">>, <<"json">>},
     temperature : {Absent, <<NoTemperature>>, <<<<0>>>>, <<<<1>>>>},
     model : {Absent, <<"m">>}]

\* options.get(k, default)
OptionsGet(o, k, default) == IF o[k] = Absent THEN default ELSE o[k][1]

\* a bug: `if options.get("temperature"):`, which drops the temperature 0.0
KwargsTruthyTemperature(audio_bytes, o) ==
    [audio |-> <<audio_bytes>>,
     model |-> <<OptionsGet(o, "model", "")>>,
     language |-> IF Truthy(OptionsGet(o, "language", Null))
                  THEN o.language ELSE Absent,
     response_format |-> IF Truthy(OptionsGet(o, "response_format", Null))
                         THEN o.response_format ELSE Absent,
     temperature |-> IF OptionsGet(o, "temperature", NoTemperature)
                            \notin {NoTemperature, <<0>>}
                     THEN o.temperature ELSE Absent]

\* the keyword arguments of self._router.transcribe (lines 113-127), the model
\* being options.get("model", "") of _process_job (line 61)
Kwargs(audio_bytes, o) ==
    [audio |-> <<audio_bytes>>,
     model |-> <<OptionsGet(o, "model", "")>>,
     language |-> IF Truthy(OptionsGet(o, "language", Null))
                  THEN o.language ELSE Absent,
     response_format |-> IF Truthy(OptionsGet(o, "response_format", Null))
                         THEN o.response_format ELSE Absent,
     temperature |-> IF OptionsGet(o, "temperature", NoTemperature) # NoTemperature
                     THEN o.temperature ELSE Absent]

\* _transcribe_file is entered with the options o
TranscribeFile(o) ==
    /\ options = NoArg
    /\ options' = o
    /\ UNCHANGED <<store, clock, workerVars, lock, call, calls_left, history, kwargs,
                   handles, task_job, task_state>>

\* lines 112-127: the keyword arguments are built and the call is made
RouterTranscribe ==
    /\ options # NoArg
    /\ kwargs = NoArg
    /\ kwargs' = Kwargs("bytes", options)
    /\ UNCHANGED <<store, clock, workerVars, lock, call, calls_left, history, options,
                   handles, task_job, task_state>>

NextKwargs ==
    \/ \E o \in OptionSets : TranscribeFile(o)
    \/ RouterTranscribe

SpecKwargs == Init /\ [][NextKwargs]_vars

\* ------------------------------------------- self._tasks, task by task
\* The tasks that submit creates are numbered in the order of their creation;
\* handles[j] is the task self._tasks holds for job_id j, or 0.
NotDone(i) == task_state[i] \in {"live", "cancelling"}

\* the frame of the actions on self._tasks
TasksFrame == UNCHANGED <<store, clock, workerVars, lock, call, calls_left, history,
                          options, kwargs>>

\* BatchWorker.submit (lines 39-41), for any job_id, submitted before or not
SubmitTask(j) ==
    /\ \E i \in Instances :
          /\ task_state[i] = "none"
          /\ \A k \in Instances : k < i => task_state[k] # "none"
          /\ task_job' = [task_job EXCEPT ![i] = j]
          /\ task_state' = [task_state EXCEPT ![i] = "live"]
          /\ handles' = [handles EXCEPT ![j] = i]
    /\ TasksFrame

\* BatchWorker.cancel (lines 154-160): the task the map holds for job_id, if it
\* holds one that is not done, is cancelled
CancelTask(j) ==
    /\ handles[j] # 0
    /\ task_state[handles[j]] = "live"
    /\ task_state' = [task_state EXCEPT ![handles[j]] = "cancelling"]
    /\ UNCHANGED <<handles, task_job>>
    /\ TasksFrame

\* a task ends: it is done, and its done-callback is scheduled
TaskDone(i) ==
    /\ NotDone(i)
    /\ task_state' = [task_state EXCEPT ![i] = "done"]
    /\ UNCHANGED <<handles, task_job>>
    /\ TasksFrame

\* the done-callback of line 41 of task i: self._tasks.pop(job_id, None), for
\* the job_id the task was submitted with
TaskDoneCallback(i) ==
    /\ task_state[i] = "done"
    /\ task_state' = [task_state EXCEPT ![i] = "called"]
    /\ handles' = [handles EXCEPT ![task_job[i]] = 0]
    /\ UNCHANGED task_job
    /\ TasksFrame

NextResubmit ==
    \/ \E j \in Jobs : SubmitTask(j)
    \/ \E j \in Jobs : CancelTask(j)
    \/ \E i \in Instances : TaskDone(i)
    \/ \E i \in Instances : TaskDoneCallback(i)

SpecResubmit == Init /\ [][NextResubmit]_vars

Next ==
    \/ \E j \in Jobs, n \in 0..MaxTotalFiles : Create(j, n)
    \/ \E j \in Jobs : Submit(j)
    \/ \E j \in Jobs : Cancel(j)
    \/ \E j \in Jobs : TaskStart(j)
    \/ \E j \in Jobs : TaskAcquired(j)
    \/ \E j \in Jobs : TaskResumed(j)
    \/ \E j \in Jobs, o \in CallOutcomes : CallCompletes(j, o)
    \/ \E j \in Jobs : DoneCallback(j)

\* Next, with the return values of cancel observed
NextObserved ==
    \/ \E j \in Jobs, n \in 0..MaxTotalFiles : Create(j, n)
    \/ \E j \in Jobs : Submit(j)
    \/ \E j \in Jobs : CancelObserved(j)
    \/ \E j \in Jobs : TaskStart(j)
    \/ \E j \in Jobs : TaskAcquired(j)
    \/ \E j \in Jobs : TaskResumed(j)
    \/ \E j \in Jobs, o \in CallOutcomes : CallCompletes(j, o)
    \/ \E j \in Jobs : DoneCallback(j)

\* Next, with the wall clock advancing
NextClock ==
    \/ \E j \in Jobs, n \in 0..MaxTotalFiles : Create(j, n)
    \/ \E j \in Jobs : Submit(j)
    \/ \E j \in Jobs : Cancel(j)
    \/ \E j \in Jobs : TaskStart(j)
    \/ \E j \in Jobs : TaskAcquired(j)
    \/ \E j \in Jobs : TaskResumed(j)
    \/ \E j \in Jobs, o \in CallOutcomes : CallCompletes(j, o)
    \/ \E j \in Jobs : DoneCallback(j)
    \/ Tick

\* Next, nobody calling cancel and every transcription call returning
NextNoCancel ==
    \/ \E j \in Jobs, n \in 0..MaxTotalFiles : Create(j, n)
    \/ \E j \in Jobs : Submit(j)
    \/ \E j \in Jobs : TaskStart(j)
    \/ \E j \in Jobs : TaskAcquired(j)
    \/ \E j \in Jobs : TaskResumed(j)
    \/ \E j \in Jobs : CallCompletes(j, Fut("result"))
    \/ \E j \in Jobs : DoneCallback(j)

Spec == Init /\ [][Next]_vars

\* the pool, and the history being written by other requests
NextHistory == Next \/ LogStt

SpecHistory == Init /\ [][NextHistory]_vars

SpecClockFault == InitFault /\ [][NextClock]_vars

SpecStore == Init /\ [][NextStore]_vars

SpecDelete == Init /\ [][NextDelete]_vars

SpecObserved == Init /\ [][NextObserved]_vars

\* The event loop runs every ready task step and callback, and every
\* transcription call comes to an end.
Fairness ==
    \A j \in Jobs :
        /\ WF_vars(TaskStart(j))
        /\ WF_vars(TaskAcquired(j))
        /\ WF_vars(TaskResumed(j))
        /\ WF_vars(DoneCallback(j))
        /\ WF_vars(\E o \in CallOutcomes : CallCompletes(j, o))

FairSpecFault == InitFault /\ [][Next]_vars /\ Fairness

FairSpecNoCancel == Init /\ [][NextNoCancel]_vars /\ Fairness

SpecFault == InitFault /\ [][Next]_vars

\* ============================================================ properties
Rows == {j \in Jobs : store[j] # NoRec}
InBody == {j \in Jobs : pc[j] = "transcribe"}
Granted == {j \in Jobs : pc[j] = "acquire" /\ fut[j].state = "result"}
Unfinished == {j \in Jobs : pc[j] \notin {"none", "done"}}
Terminal(j) == store[j].status \in {"done", "failed"}
RecordedCancelled(j) ==
    /\ store[j].status = "failed"
    /\ store[j].error = Cancelled
    /\ store[j].finished_at # NoTime

\* C1: the tasks inside the permit-guarded body are at most max_concurrent, and
\* every other unfinished task has not started or is suspended in the acquire,
\* where it is in the semaphore's queue
C1_BodyBound ==
    /\ Cardinality(InBody) <= max_concurrent
    /\ \A j \in Unfinished \ InBody :
        /\ pc[j] \in {"created", "acquire"}
        /\ pc[j] = "acquire" => \E k \in 1..Len(waiters) : waiters[k] = j

C1_Witness ==
    /\ Cardinality(InBody) = max_concurrent
    /\ \E j \in Jobs : pc[j] = "acquire" /\ fut[j].state = "pending"

\* C2: a job's persisted status never moves backward along
\* queued -> running -> {done, failed}, and a terminal status never changes
Rank(status) == IF status = "queued" THEN 0 ELSE IF status = "running" THEN 1 ELSE 2

C2_StatusForward ==
    [][\A j \in Jobs :
        (store[j] # NoRec) =>
            /\ store'[j] # NoRec
            /\ Rank(store'[j].status) >= Rank(store[j].status)
            /\ Terminal(j) => store'[j].status = store[j].status]_vars

C2_Witness ==
    \E j \in Rows, k \in Rows :
        /\ store[j].status = "failed" /\ store[j].error = StoreError
        /\ j \notin tasks /\ pc[j] = "done"
        /\ k # j /\ store[k].status = "running"

\* C3: a job cancelled while its task was suspended in a file's transcription call
\* (its record was running) ends with status failed, error "Cancelled" and
\* finished_at set
C3_CancelMidProcessing ==
    \A j \in Rows :
        (cancel_requested[j] /\ pc[j] = "done" /\ store[j].status # "queued")
            => RecordedCancelled(j)

C3_Witness ==
    \E j \in Rows :
        /\ cancel_requested[j] /\ pc[j] = "done"
        /\ RecordedCancelled(j)
        /\ Len(store[j].results) = 1 /\ Len(store[j].files) = 2

\* C4: every job for which cancel returned true ends with status failed, error
\* "Cancelled" and finished_at set, wherever the cancellation took effect
C4_CancelAlwaysRecorded ==
    \A j \in Rows : (cancel_requested[j] /\ pc[j] = "done") => RecordedCancelled(j)

\* C5: while the persisted status is running the task is unfinished, holds its
\* permit and has its handle in the map; and the task of a job cancelled while
\* running ends as cancelled
C5_PersistedBeforePropagation ==
    /\ \A j \in Rows :
        store[j].status = "running" => (pc[j] = "transcribe" /\ j \in tasks)
    /\ sem_value = max_concurrent - Cardinality(InBody) - Cardinality(Granted)
    /\ \A j \in Rows :
        (cancel_requested[j] /\ pc[j] = "done" /\ store[j].status # "queued")
            => outcome[j] = "cancelled"

C5_Witness ==
    \E j \in Rows :
        /\ outcome[j] = "cancelled" /\ RecordedCancelled(j)
        /\ j \in tasks
        /\ sem_value = max_concurrent

\* C6: cancel returns true, and requests the cancellation, exactly when the map
\* holds a handle for the job and that task is not done; when it returns false
\* nothing changes; it changes neither the map nor a record in any case, and it can
\* always be called
C6_CancelStep ==
    \A j \in Jobs :
        /\ (cancel_ret' # cancel_ret /\ cancel_ret'.job_id = j) =>
            /\ cancel_ret'.value = (j \in tasks /\ pc[j] # "done")
            /\ cancel_ret'.value =>
                (cancel_requested'[j] /\ (fut'[j].state = "cancelled" \/ must_cancel'[j]))
            /\ ~cancel_ret'.value =>
                UNCHANGED <<sem_value, waiters, pc, fut, must_cancel, cancel_requested,
                            outcome, audio_files, acc>>
            /\ UNCHANGED <<tasks, store>>
        /\ (cancel_requested'[j] /\ ~cancel_requested[j]) => (j \in tasks /\ pc[j] # "done")

C6_CancelReturn ==
    /\ [](\A j \in Jobs : ENABLED CancelObserved(j))
    /\ [][C6_CancelStep]_vars

C6_Witness ==
    /\ cancel_ret.job_id \in tasks
    /\ pc[cancel_ret.job_id] = "done"
    /\ cancel_ret.value = FALSE

\* C7, as amended: a job whose task ran to its end has status done and one result
\* per file, in file order, each done or failed, a failed one with an error field;
\* and the result added for a file is failed, with the exception's message as its
\* error, exactly when the file's call raised
C7_Finished ==
    \A j \in Rows :
        (pc[j] = "done" /\ outcome[j] = "finished") =>
            /\ store[j].status = "done"
            /\ Len(store[j].results) = Len(store[j].files)
            /\ \A i \in 1..Len(store[j].results) :
                /\ store[j].results[i].filename = store[j].files[i]
                /\ store[j].results[i].status \in {"done", "failed"}
                /\ store[j].results[i].status = "failed"
                     => "error" \in DOMAIN store[j].results[i]

C7_FileStep ==
    \A j \in Jobs :
        (/\ pc[j] = "transcribe"
         /\ fut[j].state \in {"result", "exception"}
         /\ ~must_cancel[j]
         /\ (pc'[j] # pc[j] \/ fut'[j] # fut[j])) =>
            LET old == store[j].results
                new == store'[j].results
            IN /\ Len(new) = Len(old) + 1
               /\ SubSeq(new, 1, Len(old)) = old
               /\ new[Len(new)].status =
                    (IF fut[j].state = "exception" THEN "failed" ELSE "done")
               /\ fut[j].state = "exception" => new[Len(new)].error = fut[j].value
               /\ store'[j].status \in {"running", "done"}

C7_FileFailureIsolation == []C7_Finished /\ [][C7_FileStep]_vars

C7_Witness ==
    \E j \in Rows :
        /\ pc[j] = "done" /\ store[j].status = "done"
        /\ Len(store[j].results) = 2
        /\ store[j].results[1].status = "done"
        /\ store[j].results[2].status = "failed"

\* C7, as stated: the same, with the error of every failed result non-empty
C7_NonEmptyError ==
    /\ C7_Finished
    /\ \A j \in Rows : \A i \in 1..Len(store[j].results) :
          store[j].results[i].status = "failed" => store[j].results[i].error # ""

\* C8: a fault other than a cancellation never leaves the job's task, and the job
\* it struck has status failed, finished_at set and the fault's message as error
C8_FaultAbsorbed ==
    \A j \in Rows :
        (pc[j] = "done" /\ ~cancel_requested[j]) =>
            /\ outcome[j] = "finished"
            /\ store[j].status # "done" =>
                /\ store[j].status = "failed"
                /\ store[j].finished_at # NoTime
                /\ store[j].error = StoreError

\* C9: permits are conserved and handles follow the tasks: the counter plus the
\* permits held (by the tasks in the body and the woken waiters) is max_concurrent,
\* the map holds every unfinished task and no job without a task, and once every
\* task is done all permits are back and, their callbacks run, the map is empty
C9_Conservation ==
    /\ sem_value + Cardinality(InBody) + Cardinality(Granted) = max_concurrent
    /\ Unfinished \subseteq tasks
    /\ tasks \subseteq {j \in Jobs : pc[j] # "none"}
    /\ Unfinished = {} => (sem_value = max_concurrent /\ waiters = <<>>)
    /\ (\A j \in Jobs : ~ENABLED DoneCallback(j)) => tasks = Unfinished

C9_Witness ==
    /\ Unfinished = {} /\ tasks = {} /\ sem_value = max_concurrent
    /\ \E j \in Rows : outcome[j] = "cancelled" /\ store[j].status = "queued"
    /\ \E j \in Rows : outcome[j] = "finished" /\ store[j].error = StoreError

\* C10: whatever happens to the other jobs (a job-level fault, a cancellation),
\* the task of every submitted job comes to its end, and the job's status is then
\* terminal, unless that job itself was cancelled or its own handler's write raised
C10_SiblingIsolation ==
    \A j \in Jobs :
        (pc[j] # "none") ~>
            (/\ pc[j] = "done"
             /\ (Terminal(j) \/ cancel_requested[j] \/ outcome[j] = "raised"))

C10_Witness ==
    /\ max_concurrent = 1
    /\ \E a \in Rows, b \in Rows :
        /\ a # b
        /\ pc[a] = "done" /\ store[a].status = "failed"
        /\ store[b].status = "running" /\ pc[b] = "transcribe"

\* C11: the persisted results name a prefix of the job's files, in the order of
\* submission; a call in progress for an unfinished task is the call of the file
\* right after that prefix; a step adds at most one result; and the results of a
\* job that is done name all its files, the i-th result the i-th file
FilenamesArePrefix(results, files) ==
    /\ Len(results) <= Len(files)
    /\ \A i \in 1..Len(results) : results[i].filename = files[i]

C11_Ordered ==
    \A j \in Rows :
        /\ FilenamesArePrefix(store[j].results, store[j].files)
        /\ pc[j] = "transcribe" =>
              /\ Len(store[j].results) < Len(store[j].files)
              /\ store[j].results = acc[j]
        /\ store[j].status = "done" => Len(store[j].results) = Len(store[j].files)

C11_OneAtATime ==
    \A j \in Jobs :
        (store[j] # NoRec /\ store'[j] # NoRec) =>
            Len(store'[j].results) <= Len(store[j].results) + 1

C11_SubmissionOrder == []C11_Ordered /\ [][C11_OneAtATime]_vars

C11_Witness ==
    \E j \in Rows :
        /\ store[j].status = "done" /\ Len(store[j].files) = 2
        /\ store[j].results[1].filename = <<j, 1>>
        /\ store[j].results[2].filename = <<j, 2>>
        /\ store[j].results[1].status = "done" /\ store[j].results[2].status = "done"

\* C12, as amended: every persisted results list extends the one before it; a job
\* that is done has one result per file; a job that failed, by a cancellation or
\* by a job-level fault, has the results persisted before that, fewer than its
\* files when it was cancelled
IsPrefix(a, b) == Len(a) <= Len(b) /\ SubSeq(b, 1, Len(a)) = a

C12_Grows ==
    \A j \in Jobs :
        (store[j] # NoRec /\ store'[j] # NoRec) =>
            /\ IsPrefix(store[j].results, store'[j].results)
            /\ Terminal(j) => store'[j].results = store[j].results

C12_Final ==
    \A j \in Rows :
        /\ store[j].status = "done" => Len(store[j].results) = Len(store[j].files)
        /\ store[j].status = "failed" => Len(store[j].results) <= Len(store[j].files)
        /\ (store[j].status = "failed" /\ store[j].error = Cancelled) =>
              Len(store[j].results) < Len(store[j].files)

C12_ResultsGrow == []C12_Final /\ [][C12_Grows]_vars

C12_Witness ==
    \E j \in Rows :
        /\ store[j].status = "failed" /\ store[j].error = StoreError
        /\ ~cancel_requested[j]
        /\ Len(store[j].results) = 1 /\ Len(store[j].files) = 2

\* C12, as stated: a terminal job that was not cancelled has one result per file
C12_FinalLength ==
    \A j \in Rows :
        (Terminal(j) /\ ~cancel_requested[j]) =>
            Len(store[j].results) = Len(store[j].files)

\* C13: the step that records a cancellation leaves the job's persisted results
\* as they were
C13_CancelKeepsResults ==
    [][\A j \in Jobs :
        (/\ store[j] # NoRec /\ store'[j] # NoRec
         /\ store[j].status # "failed"
         /\ store'[j].status = "failed" /\ store'[j].error = Cancelled) =>
            store'[j].results = store[j].results]_vars

C13_Witness ==
    \E j \in Rows :
        /\ RecordedCancelled(j)
        /\ Len(store[j].results) = 1
        /\ store[j].results[1].status = "failed"

\* C14, as amended: started_at is None exactly while the status has not been
\* running, which is while it is queued or after a fault of the first update made
\* the job failed; finished_at is None exactly while the status is queued or
\* running; each is the clock's reading of the update that sets it, started_at
\* set by the update that leaves queued for running and finished_at by the update
\* that makes the status terminal, and neither changes afterwards
C14_Finished ==
    \A j \in Rows : (store[j].finished_at = NoTime) <=> ~Terminal(j)

C14_State ==
    /\ C14_Finished
    /\ \A j \in Rows :
        /\ store[j].status = "queued" => store[j].started_at = NoTime
        /\ store[j].status \in {"running", "done"} => store[j].started_at # NoTime
        /\ (store[j].status = "failed" /\ store[j].started_at = NoTime) =>
              store[j].error = StoreError

C14_Step ==
    \A j \in Jobs :
        (store[j] # NoRec /\ store'[j] # NoRec) =>
            /\ store[j].started_at # NoTime => store'[j].started_at = store[j].started_at
            /\ store[j].finished_at # NoTime =>
                  store'[j].finished_at = store[j].finished_at
            /\ store'[j].started_at # store[j].started_at =>
                  /\ store[j].status = "queued" /\ store'[j].status # "queued"
                  /\ store'[j].started_at = <<clock>>
            /\ (store[j].status = "queued" /\ store'[j].status \in {"running", "done"}) =>
                  store'[j].started_at = <<clock>>
            /\ (~Terminal(j) /\ store'[j].status \in {"done", "failed"}) =>
                  store'[j].finished_at = <<clock>>

C14_Timestamps == []C14_State /\ [][C14_Step]_vars

C14_Witness ==
    \E j \in Rows :
        /\ store[j].status = "done"
        /\ store[j].started_at = <<0>>
        /\ store[j].finished_at = <<1>>
        /\ clock = MaxClock

\* C14, as stated: started_at is None exactly while the status is queued
C14_StartedExactlyQueued ==
    /\ C14_Finished
    /\ \A j \in Rows : (store[j].started_at = NoTime) <=> (store[j].status = "queued")

C16_CallsBounded == Cardinality(in_call) <= max_concurrent

\* C17: submit can be called for every created job that has no task yet, with or
\* without a free permit; it registers the task and changes neither a record nor
\* the semaphore nor the calls in progress; and until the task's first step the
\* record is queued, without results
C17_SubmitStep ==
    \A j \in Jobs :
        (pc[j] = "none" /\ pc'[j] # "none") =>
            /\ pc'[j] = "created"
            /\ j \in tasks'
            /\ UNCHANGED <<store, sem_value, waiters, in_call, fut, acc>>

C17_NotStarted ==
    \A j \in Jobs :
        /\ (store[j] # NoRec /\ pc[j] = "none") => ENABLED Submit(j)
        /\ pc[j] = "created" =>
              /\ store[j].status = "queued" /\ store[j].results = <<>>
              /\ store[j].started_at = NoTime
              /\ j \in tasks /\ j \notin in_call

C17_SubmitNonBlocking == []C17_NotStarted /\ [][C17_SubmitStep]_vars

C17_Witness ==
    \E j \in Rows, k \in Rows :
        /\ pc[j] = "created" /\ store[j].status = "queued"
        /\ pc[k] = "transcribe" /\ sem_value = 0

\* C18: a record changes only in a step of its own job's task, one record a
\* step, and the results of a job name files of that job only; those of a job
\* that is done name exactly its files
C18_OwnFiles ==
    \A j \in Rows :
        /\ \A i \in 1..Len(store[j].results) :
              /\ store[j].results[i].filename[1] = j
              /\ \E n \in 1..Len(store[j].files) :
                    store[j].files[n] = store[j].results[i].filename
        /\ store[j].status = "done" =>
              {store[j].results[i].filename : i \in 1..Len(store[j].results)}
                = {store[j].files[n] : n \in 1..Len(store[j].files)}

C18_OwnRecord ==
    /\ \A j \in Jobs :
          (store[j] # NoRec /\ store'[j] # store[j]) =>
              /\ pc[j] \in {"created", "acquire", "transcribe"}
              /\ pc'[j] # pc[j] \/ acc'[j] # acc[j]
    /\ Cardinality({j \in Jobs : store'[j] # store[j]}) <= 1

C18_NoCrossContamination == []C18_OwnFiles /\ [][C18_OwnRecord]_vars

C18_Witness ==
    \E j \in Rows, k \in Rows :
        /\ j # k
        /\ store[j].status = "done" /\ store[k].status = "done"
        /\ Len(store[j].results) = 1 /\ Len(store[k].results) = 1
        /\ store[j].results[1].filename = <<j, 1>>
        /\ store[k].results[1].filename = <<k, 1>>

\* C19: while a task is suspended in the call of its (k+1)-th file, get returns
\* the job running, with the k results of the files before it
StoreGet(j) == store[j]

C19_ProgressVisible ==
    \A j \in Rows :
        pc[j] = "transcribe" =>
            /\ StoreGet(j).status = "running"
            /\ Len(StoreGet(j).results) = Len(acc[j])
            /\ StoreGet(j).results = acc[j]
            /\ StoreGet(j).finished_at = NoTime

C19_Witness ==
    \E j \in Rows :
        /\ pc[j] = "transcribe" /\ fut[j].state = "pending"
        /\ StoreGet(j).status = "running"
        /\ Len(StoreGet(j).results) = 1 /\ Len(StoreGet(j).files) = 2

\* C20: for a call that returned or raised, the pipeline gives one result and the
\* task goes on: the result has the file's name and a processing time, status
\* done and a text for a call that returned, status failed and the error for a
\* call that raised, and nothing else
C20_PipelineStep ==
    \A j \in Jobs :
        (/\ pc[j] = "transcribe"
         /\ fut[j].state \in {"result", "exception"}
         /\ ~must_cancel[j]
         /\ pc'[j] # pc[j] \/ fut'[j] # fut[j]) =>
            LET new == store'[j].results
                r == new[Len(new)]
            IN /\ Len(new) = Len(acc[j]) + 1
               /\ {"filename", "status", "processing_time_ms"} \subseteq DOMAIN r
               /\ r.filename = audio_files[j][Len(new)]
               /\ r.processing_time_ms = Elapsed
               /\ fut[j].state = "result" =>
                    /\ DOMAIN r = {"filename", "status", "text", "processing_time_ms"}
                    /\ r.status = "done"
               /\ fut[j].state = "exception" =>
                    /\ DOMAIN r = {"filename", "status", "error", "processing_time_ms"}
                    /\ r.status = "failed"
                    /\ r.error \in Messages
               /\ pc'[j] = "done" => outcome'[j] = "finished"

C20_PipelineTotal == [][C20_PipelineStep]_vars

C20_Witness ==
    \E j \in Rows :
        /\ pc[j] = "transcribe" /\ fut[j].state = "pending"
        /\ Len(store[j].results) = 1
        /\ store[j].results[1].status = "failed"
        /\ store[j].results[1].processing_time_ms = Elapsed

StoreStep(t, op, from) ==
    call[t].op = op /\ call[t].pc = from /\ call'[t] # call[t]

\* C22: update on a job_id that is absent returns false and changes no record:
\* the SELECT that finds no row leaves the store as it is and makes the return
\* value false, and the return leaves both as they are.
C22_Step ==
    \A t \in Callers :
        /\ (StoreStep(t, "update", "locked") /\ store[call[t].job_id] = NoRec)
              => /\ store' = store
                 /\ call'[t].pc = "unlock"
                 /\ call'[t].ret = [bool |-> FALSE]
        /\ (StoreStep(t, "update", "unlock") /\ call[t].ret = [bool |-> FALSE])
              => /\ store' = store
                 /\ call'[t].pc = "returned"
                 /\ call'[t].ret = [bool |-> FALSE]

C22_UpdateMissing == [][C22_Step]_vars

\* update has returned false for an absent job_id while another record exists,
\* as it was created
C22_Witness ==
    \E t \in Callers, k \in Jobs :
        /\ call[t].op = "update" /\ call[t].pc = "returned"
        /\ call[t].ret = [bool |-> FALSE]
        /\ store[call[t].job_id] = NoRec
        /\ k # call[t].job_id
        /\ store[k] = StoreJob(k)

\* ------------------------------------------------------------------ C23
\* C23: update on an existing job_id returns true and the record then holds the
\* supplied value in every supplied field, every other field of the record and
\* every other record being as before.
C23_Step ==
    \A t \in Callers :
        StoreStep(t, "update", "write") =>
            LET j == call[t].job_id
                fields == call[t].arg.fields
            IN /\ call'[t].ret = [bool |-> TRUE]
               /\ store'[j] # NoRec
               /\ \A k \in DOMAIN fields : store'[j][k] = fields[k]
               /\ \A k \in DOMAIN store[j] \ DOMAIN fields : store'[j][k] = store[j][k]
               /\ \A i \in Jobs \ {j} : store'[i] = store[i]

C23_UpdateReflected == [][C23_Step]_vars

\* ------------------------------------------------------------------ C24
\* the threads that are inside `with self._lock`
Inside == {t \in Callers : call[t].pc \in {"locked", "write", "unlock"}}

\* C24: no lost update.  Between the SELECT and the UPDATE of an update no other
\* thread is inside a store operation and the row read is still the row of the
\* table; the UPDATE leaves every field that its caller did not supply as the
\* table has it, so what another caller wrote before is kept, and leaves every
\* other record alone.
C24_Serialized ==
    \A t \in Callers :
        call[t].pc = "write" =>
            /\ lock = t
            /\ Inside = {t}
            /\ call[t].row = store[call[t].job_id]

C24_Step ==
    \A t \in Callers :
        StoreStep(t, "update", "write") =>
            LET j == call[t].job_id
            IN /\ call[t].row = store[j]
               /\ store'[j] # NoRec
               /\ \A k \in DOMAIN store[j] \ DOMAIN call[t].arg.fields :
                     store'[j][k] = store[j][k]
               /\ \A i \in Jobs \ {j} : store'[i] = store[i]

C24_NoLostUpdate == []C24_Serialized /\ [][C24_Step]_vars

\* Two threads have updated the same job with different fields, the second
\* one's UPDATE just done, and the record holds the fields of both.
C24_Witness ==
    \E t, u \in Callers :
        /\ t # u
        /\ call[t].op = "update" /\ call[u].op = "update"
        /\ call[t].job_id = call[u].job_id
        /\ call[t].pc = "returned" /\ call[t].ret = [bool |-> TRUE]
        /\ call[u].pc = "unlock" /\ call[u].ret = [bool |-> TRUE]
        /\ DOMAIN call[t].arg.fields = {"status", "error"}
        /\ DOMAIN call[u].arg.fields = {"results"}
        /\ store[call[t].job_id] # NoRec
        /\ store[call[t].job_id].status = "done"
        /\ store[call[t].job_id].error = "boom"
        /\ store[call[t].job_id].results = call[u].arg.fields.results

\* ------------------------------------------------------------------ C25
\* C25: every store operation runs its statements on the shared connection
\* while holding the store's lock: at most one thread is inside `with
\* self._lock` at any time and it is the holder of the lock, and every step that
\* reads or writes the table (of create, get, update, list_jobs and delete) is
\* a step of the holder.
C25_OneInside ==
    /\ Cardinality(Inside) <= 1
    /\ \A t \in Inside : lock = t

C25_Step ==
    /\ \A t \in Callers :
          (call[t].pc \in {"locked", "write"} /\ call'[t] # call[t]) => lock = t
    /\ store' # store =>
          \E t \in Callers : lock = t /\ call[t].pc \in {"locked", "write"}
                                      /\ call'[t] # call[t]

C25_MutualExclusion == []C25_OneInside /\ [][C25_Step]_vars

\* One thread is between the SELECT and the UPDATE of update while another
\* thread, having called an operation, waits for the lock.
C25_Witness ==
    \E t, u \in Callers :
        /\ t # u
        /\ call[t].pc = "write" /\ lock = t
        /\ call[u].pc = "wait"

\* ------------------------------------------------------------------ C26
\* C26: create stores the job so that the record equals the input in every
\* field; get returns the record as the table has it when it reads, hence the
\* created one when it follows the create; get on an id without a record
\* returns the not-found value and raises nothing.
C26_Step ==
    \A t \in Callers :
        LET j == call[t].job_id IN
        /\ (StoreStep(t, "create", "locked") /\ store[j] = NoRec)
              => /\ store'[j] = call[t].arg.job
                 /\ DOMAIN store'[j] = {"job_id", "status", "created_at", "started_at",
                                        "finished_at", "model", "files", "options",
                                        "results", "error"}
                 /\ call'[t].ret = [job |-> call[t].arg.job]
        /\ StoreStep(t, "get", "locked")
              => /\ call'[t].row = store[j]
                 /\ call'[t].pc = "unlock"
                 /\ store' = store
        /\ StoreStep(t, "get", "unlock")
              => /\ call'[t].pc = "returned"
                 /\ call'[t].ret = [job |-> call[t].row]
                 /\ store' = store

C26_CreateGetRoundTrip == [][C26_Step]_vars

\* One thread's get returned the job that create was given, equal in every field
\* (the record is still that job), and another thread's get returned the
\* not-found value for an id without a record.
C26_Witness ==
    \E t, u \in Callers :
        /\ call[t].op = "get" /\ call[t].pc = "returned"
        /\ call[t].ret = [job |-> store[call[t].job_id]]
        /\ call[t].ret.job # NoRec
        /\ call[t].ret.job = [StoreJob(call[t].job_id) EXCEPT
                                 !.created_at = call[t].ret.job.created_at]
        /\ call[u].op = "get" /\ call[u].pc = "returned"
        /\ call[u].ret = [job |-> NoRec]

\* ------------------------------------------------------------------ C27
\* C27: create with a job_id that has a record fails with the duplicate-key
\* error and changes no record, and the exception leaves the lock free; the
\* lock is never held by a thread that is outside `with self._lock`, so a thread
\* that waits for the lock while nobody is inside can take it, and operations
\* called later go on.
C27_Step ==
    \A t \in Callers :
        (StoreStep(t, "create", "locked") /\ store[call[t].job_id] # NoRec)
            => /\ call'[t].ret = [raises |-> "IntegrityError"]
               /\ call'[t].pc = "returned"
               /\ store' = store
               /\ lock' = 0

C27_LockFree ==
    /\ lock # 0 => lock \in Inside
    /\ \A t \in Callers : (call[t].pc = "wait" /\ Inside = {}) => ENABLED Acquire(t)

C27_DuplicateCreate == []C27_LockFree /\ [][C27_Step]_vars

\* One thread's create has failed with the duplicate-key error, and another
\* thread, which took the lock after that, has read the existing record, which is
\* the one first created.
C27_Witness ==
    \E t, u \in Callers :
        /\ call[t].op = "create" /\ call[t].pc = "returned"
        /\ call[t].ret = [raises |-> "IntegrityError"]
        /\ call[u].op = "get" /\ call[u].pc = "unlock" /\ lock = u
        /\ call[u].job_id = call[t].job_id
        /\ call[u].row # NoRec
        /\ call[u].row = store[call[t].job_id]

\* ------------------------------------------------------------------ C28
\* what list_jobs returned in the step, for a thread t that ran its SELECT
Listed(t) == call'[t].ret.list

\* the listed records are in the order of created_at, latest first
Descending(r) ==
    \A a \in 1..(Len(r) - 1) : r[a].created_at[1] >= r[a + 1].created_at[1]

\* the listed records are records of the table, each once, and no record of the
\* set S that is left out is later than a listed one
MostRecentOf(r, S) ==
    /\ \A a \in 1..Len(r) : r[a].job_id \in S /\ r[a] = store[r[a].job_id]
    /\ \A a, b \in 1..Len(r) : a # b => r[a].job_id # r[b].job_id
    /\ \A k \in S : (\A a \in 1..Len(r) : r[a].job_id # k) =>
          \A a \in 1..Len(r) : r[a].created_at[1] >= store[k].created_at[1]

\* C28, as stated: list_jobs(limit=N) returns at most N records, latest first
\* (the N most recently created), and with a status filter only records of that
\* status.
C28_StepAsStated ==
    \A t \in Callers :
        StoreStep(t, "list_jobs", "locked") =>
            LET n == call[t].arg.limit
                s == call[t].arg.status
            IN /\ Len(Listed(t)) <= n
               /\ Descending(Listed(t))
               /\ s # Null => \A a \in 1..Len(Listed(t)) : Listed(t)[a].status = s

C28_ListAsStated == [][C28_StepAsStated]_vars

\* C28, amended: for N >= 0, list_jobs(limit=N) returns min(N, number of
\* matching records) records, and for a negative N all of them; the records are
\* the most recently created of the matching ones, latest first, those of equal
\* creation time in either order; the matching records are those whose status
\* equals the filter when the filter is a non-empty string, and all records
\* when it is None or the empty string.
C28_Step ==
    \A t \in Callers :
        StoreStep(t, "list_jobs", "locked") =>
            LET n == call[t].arg.limit
                s == call[t].arg.status
                S == {k \in Jobs : store[k] # NoRec /\ (s \notin {Null, ""} =>
                                                          store[k].status = s)}
            IN /\ n >= 0 => Len(Listed(t)) <= n
               /\ Len(Listed(t)) = IF n < 0 \/ n > Cardinality(S)
                                   THEN Cardinality(S) ELSE n
               /\ Descending(Listed(t))
               /\ MostRecentOf(Listed(t), S)
               /\ s \notin {Null, ""} =>
                     \A a \in 1..Len(Listed(t)) : Listed(t)[a].status = s
               /\ store' = store

C28_List == [][C28_Step]_vars

\* list_jobs with limit 1 returned the later created of two records
C28_Witness ==
    \E t \in Callers :
        /\ call[t].op = "list_jobs" /\ call[t].pc \in {"unlock", "returned"}
        /\ call[t].arg.limit = 1
        /\ Len(call[t].ret.list) = 1
        /\ \E k \in Jobs :
              /\ store[k] # NoRec
              /\ k # call[t].ret.list[1].job_id
              /\ store[k].created_at[1] < call[t].ret.list[1].created_at[1]

\* ------------------------------------------------------------------ C29
\* C29: delete on a job_id that has a record returns true and removes that
\* record only, so that a get that reads afterwards finds nothing; delete on a
\* job_id without a record, a second delete of the same id included, returns
\* false and changes nothing.
C29_Step ==
    \A t \in Callers :
        LET j == call[t].job_id IN
        /\ StoreStep(t, "delete", "locked")
              => /\ store'[j] = NoRec
                 /\ \A i \in Jobs \ {j} : store'[i] = store[i]
                 /\ call'[t].ret = [bool |-> store[j] # NoRec]
                 /\ store[j] = NoRec => store' = store
        /\ StoreStep(t, "delete", "unlock")
              => /\ call'[t].pc = "returned"
                 /\ call'[t].ret = call[t].ret
                 /\ store' = store
        /\ (StoreStep(t, "get", "locked") /\ store[j] = NoRec)
              => call'[t].row = NoRec

C29_Delete == [][C29_Step]_vars

\* A record was created, one thread's delete of it returned true, another
\* thread's delete of the same id then returned false, and the id has no record.
C29_Witness ==
    \E t, u \in Callers :
        /\ t # u
        /\ call[t].op = "delete" /\ call[u].op = "delete"
        /\ call[t].job_id = call[u].job_id
        /\ call[t].pc = "returned" /\ call[t].ret = [bool |-> TRUE]
        /\ call[u].pc = "returned" /\ call[u].ret = [bool |-> FALSE]
        /\ store[call[t].job_id] = NoRec

\* ------------------------------------------------------------------ C30
\* C30: deleting the record of a job whose task is queued or running does not
\* cancel the task.  The step that removes the record leaves the tracking map,
\* the task, its future, the cancellation flags, the semaphore and its waiters
\* and the calls in progress as they are; afterwards the task, unless cancel is
\* called for it, goes on as if the record were there: it takes the permit,
\* invokes transcription for each of its files in turn, writes nothing (the
\* updates find no record) and ends without raising.
C30_DeleteStep ==
    \A j \in Jobs :
        (store[j] # NoRec /\ store'[j] = NoRec) =>
            /\ j \in tasks /\ pc[j] \in {"created", "acquire", "transcribe"}
            /\ UNCHANGED <<tasks, pc, fut, must_cancel, cancel_requested, outcome,
                           sem_value, waiters, in_call, acc, audio_files>>

C30_TaskStep ==
    \A j \in Jobs :
        (store[j] = NoRec /\ ~cancel_requested[j]
           /\ (pc'[j] # pc[j] \/ acc'[j] # acc[j])) =>
            /\ store' = store
            /\ j \in tasks'
            /\ pc[j] = "created" => pc'[j] \in {"acquire", "transcribe", "done"}
            /\ (pc[j] \in {"created", "acquire"} /\ pc'[j] # "acquire") =>
                  IF audio_files[j] # <<>>
                  THEN pc'[j] = "transcribe" /\ j \in in_call' /\ acc'[j] = <<>>
                  ELSE pc'[j] = "done" /\ outcome'[j] = "finished"
            /\ pc[j] = "transcribe" =>
                  IF Len(acc[j]) + 1 < Len(audio_files[j])
                  THEN /\ pc'[j] = "transcribe" /\ j \in in_call'
                       /\ Len(acc'[j]) = Len(acc[j]) + 1
                  ELSE pc'[j] = "done" /\ outcome'[j] = "finished"

C30_Tracked ==
    \A j \in Jobs :
        /\ pc[j] \in {"created", "acquire", "transcribe"} => j \in tasks
        /\ (pc[j] = "done" /\ ~cancel_requested[j]) => outcome[j] = "finished"

C30_DeleteDoesNotCancel == []C30_Tracked /\ [][C30_DeleteStep /\ C30_TaskStep]_vars

\* The record of a job with files was deleted while its task was queued or
\* running; the task, never cancelled, has ended normally and its handle is
\* still in the map, the done-callback not having run yet; no record is back.
C30_Witness ==
    \E j \in Jobs :
        /\ store[j] = NoRec
        /\ audio_files[j] # <<>>
        /\ pc[j] = "done" /\ outcome[j] = "finished"
        /\ ~cancel_requested[j]
        /\ j \in tasks
        /\ j \notin in_call

\* ------------------------------------------------------------------ C31
\* C31: a batch job processed to status done has created history entries: the
\* history holds an entry of type stt for each file of the job.
C31_HistoryPerFile ==
    \A j \in Rows :
        store[j].status = "done" =>
            \A i \in 1..Len(store[j].files) :
                \E e \in 1..Len(history) :
                    /\ history[e].type = "stt"
                    /\ history[e].input_filename = store[j].files[i]

\* ------------------------------------------------------------------ C32
\* C32: no zombie jobs.  Whenever the task of a job has finished, normally, by
\* a fault or by cancellation, and the job's record exists, the record's status
\* is done or failed.
C32_NoZombie ==
    \A j \in Rows : pc[j] = "done" => Terminal(j)

\* ------------------------------------------------------------------ C33
\* the jobs for which a transcription call is started in the step
CallStarted == in_call' \ in_call

\* C33: every transcription call of a job is started by the job's task inside
\* the permit-guarded body, the permits being accounted for, and with the
\* record, if there is one, persisted as running: it was not terminal before the
\* step and is running, with started_at set, after it; so the record is running
\* before the first file is transcribed and no call starts once it is terminal.
C33_Step ==
    \A j \in CallStarted :
        /\ pc'[j] = "transcribe" /\ fut'[j].state = "pending"
        /\ j \in tasks'
        /\ store[j] # NoRec => ~Terminal(j)
        /\ store'[j] # NoRec =>
              /\ store'[j].status = "running"
              /\ store'[j].started_at # NoTime
        /\ acc'[j] # <<>> => (store[j] # NoRec => store[j].status = "running")

C33_Permits ==
    /\ in_call \cap Unfinished \subseteq InBody
    /\ Cardinality(InBody) <= max_concurrent
    /\ sem_value + Cardinality(InBody) + Cardinality(Granted) = max_concurrent
    /\ \A j \in Rows : Terminal(j) => pc[j] = "done"

C33_RunningBeforeCalls == []C33_Permits /\ [][C33_Step]_vars

\* The second call of a job is in progress: the record is running, with the
\* first result persisted, and the job is one of those holding a permit.
C33_Witness ==
    \E j \in Rows :
        /\ j \in in_call /\ pc[j] = "transcribe" /\ fut[j].state = "pending"
        /\ store[j].status = "running"
        /\ Len(store[j].results) = 1 /\ Len(acc[j]) = 1
        /\ sem_value = max_concurrent - Cardinality(InBody)

\* ------------------------------------------------------------------ C34
\* the jobs whose task awaits a transcription call that has not returned
Stuck == {j \in Jobs : pc[j] = "transcribe" /\ fut[j].state = "pending"}

\* the call of job j neither returns nor is cancelled in the step
StaysStuck(j) == j \in Stuck /\ fut'[j] = fut[j]

\* C34: as long as the call of a job neither returns nor is cancelled, the job
\* stays where it is: its task suspended in the call, its record running, its
\* permit held, its handle in the map, whatever else happens.  And while as many
\* jobs as there are permits are so stuck, no other job starts: the other
\* submitted jobs stay out of the body, their records queued as they were.
\* Nothing but the call's return or a cancel ends this: there is no timeout.
C34_Step ==
    /\ \A j \in Jobs :
          StaysStuck(j) =>
              /\ pc'[j] = "transcribe" /\ j \in tasks'
              /\ store'[j] = store[j]
              /\ store[j] # NoRec => store[j].status = "running"
    /\ (Cardinality(Stuck) = max_concurrent /\ \A j \in Stuck : StaysStuck(j)) =>
          \A k \in Jobs \ Stuck :
              /\ pc'[k] # "transcribe"
              /\ k \notin in_call' \ in_call
              /\ (k \in Rows /\ pc[k] \in {"created", "acquire"}) =>
                    /\ store[k].status = "queued"
                    /\ store'[k] = store[k]

C34_Held ==
    /\ sem_value + Cardinality(InBody) + Cardinality(Granted) = max_concurrent
    /\ Cardinality(Stuck) = max_concurrent =>
          /\ sem_value = 0 /\ Granted = {}
          /\ \A k \in Jobs \ Stuck : ~ENABLED TaskAcquired(k) \/ cancel_requested[k]

C34_StuckCallHoldsPermit == []C34_Held /\ [][C34_Step]_vars

\* With a limit of one, one job's call is in progress and another submitted job
\* waits in the acquire, its record queued.
C34_Witness ==
    \E j, k \in Rows :
        /\ max_concurrent = 1
        /\ Stuck = {j} /\ j \in in_call
        /\ store[j].status = "running"
        /\ pc[k] = "acquire" /\ fut[k].state = "pending"
        /\ store[k].status = "queued"
        /\ sem_value = 0

\* ------------------------------------------------------------------ C35
\* the jobs whose cancel was requested before their task held a permit
CancelledEarly == {j \in Jobs : pc[j] \in {"created", "acquire"} /\ cancel_requested[j]}

\* C35: a job whose cancel is requested before its task has the permit never
\* enters _process_job: its task can only end, cancelled, in a step that makes
\* no transcription call, leaves every record as it is and takes no permit (a
\* permit that had been handed to the waiter goes back, to the next waiter if
\* there is one).  The waiters that remain are not forgotten: a free permit and
\* a waiter still pending never coexist.
C35_Step ==
    \A j \in CancelledEarly :
        /\ pc'[j] \in {pc[j], "done"}
        /\ j \notin in_call'
        /\ store'[j] = store[j]
        /\ pc'[j] = "done" =>
              /\ outcome'[j] = "cancelled"
              /\ store' = store /\ in_call' = in_call
              /\ sem_value' >= sem_value
              /\ sem_value' + Cardinality({k \in Jobs : pc'[k] = "acquire"
                                                        /\ fut'[k].state = "result"})
                    = sem_value + Cardinality(Granted \ {j})
                        + (IF j \in Granted THEN 1 ELSE 0)

C35_NoLostWakeup ==
    /\ sem_value > 0 => \A k \in Jobs : pc[k] = "acquire" => fut[k].state # "pending"
    /\ sem_value + Cardinality(InBody) + Cardinality(Granted) = max_concurrent
    /\ \A j \in CancelledEarly : j \notin in_call

C36_Step ==
    \A j \in Jobs :
        /\ (store[j] = NoRec /\ store'[j] # NoRec) =>
              /\ pc[j] = "none" /\ pc'[j] = "none" /\ j \notin tasks
              /\ store'[j].status = "queued" /\ store'[j].results = <<>>
        /\ (store[j] = NoRec /\ pc[j] # "none") => store'[j] = NoRec

C36_NoResurrection == [][C36_Step]_vars

\* The record of a job with two files was deleted while its task was live; the
\* task has since gone through all its updates and ended, its done-callback has
\* run, and there is no record.
C36_Witness ==
    \E j \in Jobs :
        /\ store[j] = NoRec
        /\ Len(audio_files[j]) = 2
        /\ pc[j] = "done" /\ outcome[j] = "finished"
        /\ j \notin tasks

\* ------------------------------------------------------------------ C37
\* C37: job_id and created_at of a record do not change, whatever the callers
\* of update supply.  No step changes the job_id or the created_at of a record
\* that is there before and after it, so the orders list_jobs may return the
\* records in stay the same as long as the same records are there; the row of a
\* job_id holds that job_id; an update that supplies created_at returns True and
\* one that supplies job_id raises TypeError, both leaving the two as they were.
C37_Step ==
    /\ \A j \in Jobs :
          (store[j] # NoRec /\ store'[j] # NoRec) =>
              /\ store'[j].job_id = store[j].job_id
              /\ store'[j].created_at = store[j].created_at
    /\ Rows' = Rows => Orders(store', Rows') = Orders(store, Rows)
    /\ \A t \in Callers :
          (call'[t] # call[t] /\ call'[t].ret = [raises |-> "TypeError"]) =>
              store' = store

C37_Keyed == \A j \in Rows : store[j].job_id = j

C37_Immutable == []C37_Keyed /\ [][C37_Step]_vars

\* One caller's update that supplied a created_at has returned True, another's
\* that supplied a job_id has raised; the record has the created_at it was
\* created with and its own job_id.
C37_Witness ==
    \E t, u \in Callers, j \in Rows :
        /\ call[t].op = "update" /\ call[t].pc = "returned" /\ call[t].job_id = j
        /\ "created_at" \in DOMAIN call[t].arg.fields
        /\ call[t].ret = [bool |-> TRUE]
        /\ call[u].op = "update" /\ call[u].pc = "returned" /\ call[u].job_id = j
        /\ "job_id" \in DOMAIN call[u].arg.fields
        /\ call[u].arg.fields.job_id # j
        /\ call[u].ret = [raises |-> "TypeError"]
        /\ store[j].created_at # call[t].arg.fields.created_at
        /\ store[j].job_id = j

\* ------------------------------------------------------------------ C38
\* the call of self._router.transcribe has been made
Called == kwargs # NoArg

\* C38, as stated: the call is given exactly those of language, response_format
\* and temperature that are keys of the options, with their values.
C38_ForwardedIfPresent ==
    Called => \A k \in OptionalKeys : kwargs[k] = options[k]

\* C38, amended: the call is always given the audio bytes and the model id (the
\* option model, or "" without it).  It is given no optional parameter that is
\* not a key of the options, and none with another value than the option's.  Of
\* the keys present, language and response_format are given when their value is
\* neither None nor empty, and temperature when its value is not None, 0.0
\* included; a key present with a None or empty value is not given.
C38_Forwarded ==
    Called =>
        /\ kwargs.audio = <<"bytes">>
        /\ kwargs.model # Absent
        /\ options.model # Absent => kwargs.model = options.model
        /\ options.model = Absent => kwargs.model = <<"">>
        /\ \A k \in OptionalKeys : kwargs[k] # Absent => kwargs[k] = options[k]
        /\ \A k \in {"language", "response_format"} :
              kwargs[k] # Absent <=> (options[k] # Absent /\ options[k][1] \notin {Null, ""})
        /\ kwargs.temperature # Absent <=>
              (options.temperature # Absent /\ options.temperature[1] # NoTemperature)

\* The options have an empty language, a response_format and the temperature
\* 0.0: the call is given the response_format and the temperature, and no
\* language.
C38_Witness ==
    /\ Called
    /\ options.language = <<"">>
    /\ options.response_format = <<"json">>
    /\ options.temperature = <<<<0>>>>
    /\ kwargs.language = Absent
    /\ kwargs.response_format = <<"json">>
    /\ kwargs.temperature = <<<<0>>>>

\* ------------------------------------------------------------------ C39
\* C39: for every job_id that has an unfinished task, the tracking map holds
\* the handle of an unfinished task of that job_id, so that cancel(job_id)
\* reaches it; this also when the job_id is submitted again.
C39_LiveTaskTracked ==
    \A i \in Instances :
        NotDone(i) =>
            /\ handles[task_job[i]] # 0
            /\ NotDone(handles[task_job[i]])
            /\ task_job[handles[task_job[i]]] = task_job[i]

\* ------------------------------------------------------------------ C40
\* C40, as stated: every record the worker has made terminal has a started_at
\* and a finished_at that is not before it.
C40_FinishedNotBeforeStarted ==
    \A j \in Rows :
        Terminal(j) =>
            /\ store[j].started_at # NoTime
            /\ store[j].finished_at # NoTime
            /\ store[j].finished_at[1] >= store[j].started_at[1]

\* C40, amended: every record the worker has made terminal has a finished_at;
\* when it has a started_at, finished_at is not before it; it has none only when
\* the first update raised and the handler recorded the job as failed, and then
\* there is nothing finished_at can be compared with.
C40_FinishedAfterStart ==
    \A j \in Rows :
        Terminal(j) =>
            /\ store[j].finished_at # NoTime
            /\ store[j].finished_at[1] <= clock
            /\ IF store[j].started_at # NoTime
               THEN store[j].finished_at[1] >= store[j].started_at[1]
               ELSE store[j].status = "failed" /\ store[j].error = StoreError

\* One job was cancelled in its call, started at 0 and recorded at 1; another
\* failed at its first update and has no started_at.
C40_Witness ==
    \E j, k \in Rows :
        /\ store[j].status = "failed" /\ store[j].error = Cancelled
        /\ store[j].started_at = <<0>> /\ store[j].finished_at = <<1>>
        /\ store[k].status = "failed" /\ store[k].started_at = NoTime
        /\ store[k].finished_at # NoTime

====
